---- MODULE Spec2Model ----
(***************************************************************************)
(* Model of f-correlations.js: the registry frictionFactorCorrelations of  *)
(* eight friction-factor correlations, getAvailableCorrelations and the    *)
(* validating dispatcher calculateFrictionFactor.                          *)
(*                                                                         *)
(* JavaScript Numbers are modelled as binary floating-point values         *)
(* m * 2^e with a 15-bit mantissa (16384 <= |m| <= 32767) where a double   *)
(* has 53 bits, next to the IEEE special values NaN, +Infinity and         *)
(* -Infinity.  The arithmetic keeps the IEEE rules: results are rounded to *)
(* nearest (ties to even), x/0, 0*Infinity and Infinity-Infinity give      *)
(* infinities and NaN, NaN propagates, comparisons with NaN are false,     *)
(* results beyond the range of a double overflow to an infinity or         *)
(* underflow to zero.  The sign of zero is not kept.  Math.log10, Math.log *)
(* and Math.pow are computed to about four decimal digits.                 *)
(***************************************************************************)
EXTENDS Integers, Sequences, FiniteSets, TLC

(***************************************************************************)
(* Numbers                                                                 *)
(***************************************************************************)
NaN == [k |-> "nan", m |-> 0, e |-> 0]
PosInf == [k |-> "inf", m |-> 1, e |-> 0]
NegInf == [k |-> "inf", m |-> -1, e |-> 0]
Zero == [k |-> "fin", m |-> 0, e |-> 0]

AbsInt(i) == IF i < 0 THEN -i ELSE i
SgnInt(i) == IF i < 0 THEN -1 ELSE IF i = 0 THEN 0 ELSE 1

\* 2^n for 0 <= n <= 30 and 10^n for 0 <= n <= 9.
PowersOf2 ==
    <<1, 2, 4, 8, 16, 32, 64, 128, 256, 512, 1024, 2048, 4096, 8192, 16384,
      32768, 65536, 131072, 262144, 524288, 1048576, 2097152, 4194304,
      8388608, 16777216, 33554432, 67108864, 134217728, 268435456,
      536870912, 1073741824>>
PowersOf10 ==
    <<1, 10, 100, 1000, 10000, 100000, 1000000, 10000000, 100000000,
      1000000000>>
Pow2(n) == PowersOf2[n + 1]
Pow10(n) == PowersOf10[n + 1]

\* The number of bits of m > 0.
BitLength(m) == CHOOSE n \in 1..31 : Pow2(n - 1) <= m /\ (n = 31 \/ m < Pow2(n))

\* m / 2^k (k >= 1) rounded to nearest, ties to even.
RoundShift(m, k) ==
    IF (m % Pow2(k)) * 2 > Pow2(k)
         \/ ((m % Pow2(k)) * 2 = Pow2(k) /\ (m \div Pow2(k)) % 2 = 1)
    THEN m \div Pow2(k) + 1
    ELSE m \div Pow2(k)

\* The finite value s * m * 2^e for a 15-bit m; beyond the range of a double
\* it becomes an infinity or zero.
Ranged(s, m, e) ==
    CASE e + 14 > 1023 -> IF s < 0 THEN NegInf ELSE PosInf
      [] e + 14 < -1074 -> Zero
      [] OTHER -> [k |-> "fin", m |-> s * m, e |-> e]

\* A rounded mantissa that reached 2^15 is 2^14 with the next exponent.
Carry(s, m, e) ==
    IF m = 32768 THEN Ranged(s, 16384, e + 1) ELSE Ranged(s, m, e)

\* The finite value s * m * 2^e (m >= 0) rounded to a 15-bit mantissa.
NormMag(s, m, e) ==
    CASE m = 0 -> Zero
      [] m > 0 /\ m < 32768 ->
           Ranged(s, m * Pow2(15 - BitLength(m)), e - (15 - BitLength(m)))
      [] OTHER ->
           Carry(s, RoundShift(m, BitLength(m) - 15), e + BitLength(m) - 15)

Norm(m, e) == NormMag(SgnInt(m), AbsInt(m), e)

IsNaN(x) == x.k = "nan"
IsFin(x) == x.k = "fin"
IsInf(x) == x.k = "inf"
IsZero(x) == x.k = "fin" /\ x.m = 0
Sgn(x) == IF x.k = "nan" THEN 0 ELSE SgnInt(x.m)
Neg(x) == [x EXCEPT !.m = -x.m]
Abs(x) == [x EXCEPT !.m = AbsInt(x.m)]

\* x < y on finite values.
FinLt(x, y) ==
    CASE x.m < 0 /\ y.m >= 0 -> TRUE
      [] x.m = 0 -> y.m > 0
      [] x.m > 0 /\ y.m <= 0 -> FALSE
      [] x.m > 0 /\ y.m > 0 -> x.e < y.e \/ (x.e = y.e /\ x.m < y.m)
      [] OTHER -> x.e > y.e \/ (x.e = y.e /\ x.m < y.m)

Lt(x, y) ==
    CASE x.k = "nan" -> FALSE
      [] y.k = "nan" -> FALSE
      [] x.k = "inf" /\ y.k # "nan" -> x.m < 0 /\ ~(y.k = "inf" /\ y.m < 0)
      [] x.k = "fin" /\ y.k = "inf" -> y.m > 0
      [] OTHER -> FinLt(x, y)

Le(x, y) == ~IsNaN(x) /\ ~IsNaN(y) /\ (x = y \/ Lt(x, y))
Ge(x, y) == Le(y, x)
Gt(x, y) == Lt(y, x)

\* The smaller operand is dropped when it lies below half a unit in the
\* last place of the larger.
FinAdd(x, y) ==
    CASE x.m = 0 -> y
      [] x.m # 0 /\ y.m = 0 -> x
      [] x.m # 0 /\ y.m # 0 /\ x.e >= y.e ->
           IF x.e - y.e > 15 THEN x
           ELSE Norm(x.m * Pow2(x.e - y.e) + y.m, y.e)
      [] OTHER ->
           IF y.e - x.e > 15 THEN y
           ELSE Norm(y.m * Pow2(y.e - x.e) + x.m, x.e)

Add(x, y) ==
    CASE x.k = "nan" -> NaN
      [] y.k = "nan" -> NaN
      [] x.k = "inf" /\ y.k = "inf" -> IF x.m = y.m THEN x ELSE NaN
      [] x.k = "inf" /\ y.k = "fin" -> x
      [] x.k = "fin" /\ y.k = "inf" -> y
      [] OTHER -> FinAdd(x, y)

Sub(x, y) == Add(x, Neg(y))

Mul(x, y) ==
    CASE x.k = "nan" -> NaN
      [] y.k = "nan" -> NaN
      [] x.k # "nan" /\ y.k # "nan" /\ (x.k = "inf" \/ y.k = "inf") ->
           IF x.m = 0 \/ y.m = 0 THEN NaN
           ELSE IF (x.m < 0) # (y.m < 0) THEN NegInf ELSE PosInf
      [] OTHER -> Norm(x.m * y.m, x.e + y.e)

\* Quotient of the mantissas with a guard bit and a sticky bit.
FinDiv(x, y) ==
    LET a == AbsInt(x.m)
        b == AbsInt(y.m)
        k == IF a < b THEN 16 ELSE 15
        q == (a * Pow2(k)) \div b
        sticky == IF (a * Pow2(k)) % b = 0 THEN 0 ELSE 1
    IN NormMag(IF (x.m < 0) # (y.m < 0) THEN -1 ELSE 1, 2 * q + sticky,
               x.e - y.e - k - 1)

Div(x, y) ==
    CASE x.k = "nan" -> NaN
      [] y.k = "nan" -> NaN
      [] x.k = "inf" /\ y.k = "inf" -> NaN
      [] x.k = "inf" /\ y.k = "fin" ->
           IF (x.m < 0) # (y.m < 0) THEN NegInf ELSE PosInf
      [] x.k = "fin" /\ y.k = "inf" -> Zero
      [] x.k = "fin" /\ y.k = "fin" /\ y.m = 0 ->
           IF x.m = 0 THEN NaN ELSE IF x.m < 0 THEN NegInf ELSE PosInf
      [] x.k = "fin" /\ y.k = "fin" /\ y.m # 0 /\ x.m = 0 -> Zero
      [] OTHER -> FinDiv(x, y)

\* An integer literal, a power of ten, and the decimal literal m * 10^e.
Num(i) == Norm(i, 0)

Ten(n) == IF n <= 9 THEN Num(Pow10(n))
          ELSE Mul(Num(Pow10(9)), Num(Pow10(n - 9)))

Lit(m, e) == IF e >= 0 THEN Mul(Num(m), Ten(e)) ELSE Div(Num(m), Ten(-e))

\* floor(m * 2^d) for m >= 0
Shift(m, d) ==
    CASE d >= 0 -> m * Pow2(d)
      [] d < 0 /\ d >= -30 -> m \div Pow2(-d)
      [] OTHER -> 0

\* A finite value |x| < 2048 as a fixed-point integer, in units of 2^-14.
ToFixed(x) == SgnInt(x.m) * Shift(AbsInt(x.m), x.e + 14)

IsInteger(x) == IsFin(x) /\ (x.m = 0 \/ x.e >= 0 \/
                             (x.e >= -14 /\ AbsInt(x.m) % Pow2(-x.e) = 0))
IsOdd(x) == IsInteger(x) /\ x.m # 0 /\ x.e <= 0 /\
            (AbsInt(x.m) \div Pow2(-x.e)) % 2 = 1

\* Binary logarithm of y / 16384 for 16384 <= y < 32768, in units of
\* 2^-14: one bit per squaring.
RECURSIVE Log2Frac(_, _, _)
Log2Frac(y, bit, acc) ==
    IF bit = 0 THEN acc
    ELSE IF (y * y) \div 16384 >= 32768
         THEN Log2Frac((y * y) \div 32768, bit \div 2, acc + bit)
         ELSE Log2Frac((y * y) \div 16384, bit \div 2, acc)

\* Binary logarithm of a finite x > 0.
Log2(x) == Norm((x.e + 14) * 16384 + Log2Frac(x.m, 8192, 0), -14)

\* Math.log10
Log10(x) ==
    CASE x.k = "nan" -> NaN
      [] x.k = "inf" -> IF x.m < 0 THEN NaN ELSE PosInf
      [] x.k = "fin" /\ x.m < 0 -> NaN
      [] x.k = "fin" /\ x.m = 0 -> NegInf
      [] OTHER -> Mul(Log2(x), Lit(30103, -5))

\* Math.log
Log(x) ==
    CASE x.k = "nan" -> NaN
      [] x.k = "inf" -> IF x.m < 0 THEN NaN ELSE PosInf
      [] x.k = "fin" /\ x.m < 0 -> NaN
      [] x.k = "fin" /\ x.m = 0 -> NegInf
      [] OTHER -> Mul(Log2(x), Lit(69315, -5))

\* 16384 * e^(u / 16384) for 0 <= u < 11357 (Taylor series, Horner form).
ExpFixed(u) ==
    LET t7 == 16384 + u \div 7
        t6 == 16384 + (u * t7) \div 98304
        t5 == 16384 + (u * t6) \div 81920
        t4 == 16384 + (u * t5) \div 65536
        t3 == 16384 + (u * t4) \div 49152
        t2 == 16384 + (u * t3) \div 32768
    IN 16384 + (u * t2) \div 16384

\* 2^x for a finite x # 0 with |x| < 2048.
Exp2Fixed(z) ==
    LET i == IF z >= 0 THEN z \div 16384 ELSE -((-z + 16383) \div 16384)
    IN Norm(ExpFixed(((z - i * 16384) * 11357) \div 16384), i - 14)

\* 2^x
Exp2(x) ==
    CASE x.k = "nan" -> NaN
      [] x.k = "inf" -> IF x.m > 0 THEN PosInf ELSE Zero
      [] x.k = "fin" /\ x.m = 0 -> Num(1)
      [] x.k = "fin" /\ x.m # 0 /\ x.e > -4 -> IF x.m > 0 THEN PosInf ELSE Zero
      [] OTHER -> Exp2Fixed(ToFixed(x))

\* floor(sqrt(n)) by Newton's iteration from r >= sqrt(n).
RECURSIVE ISqrt(_, _)
ISqrt(n, r) ==
    IF (r + n \div r) \div 2 >= r THEN r ELSE ISqrt(n, (r + n \div r) \div 2)

\* Math.sqrt
Sqrt(x) ==
    CASE x.k = "nan" -> NaN
      [] x.k = "inf" -> IF x.m < 0 THEN NaN ELSE x
      [] x.k = "fin" /\ x.m < 0 -> NaN
      [] x.k = "fin" /\ x.m = 0 -> x
      [] x.k = "fin" /\ x.m > 0 /\ x.e % 2 = 0 ->
           Norm(ISqrt(x.m * 16384, 32768), (x.e - 14) \div 2)
      [] OTHER -> Norm(ISqrt(x.m * 32768, 32768), (x.e - 15) \div 2)

\* |x|^y for finite nonzero x and finite nonzero y, by way of the logarithm;
\* the exponents 1, 2 and -2 are products, as exact as a product is.
PowMag(x, y) ==
    CASE y = Num(1) -> Abs(x)
      [] y = Num(2) -> Mul(x, x)
      [] y = Num(-2) -> Div(Num(1), Mul(x, x))
      [] OTHER -> Exp2(Mul(y, Log2(Abs(x))))

\* Math.pow
Pow(x, y) ==
    CASE x.k = "nan" -> IF IsZero(y) THEN Num(1) ELSE NaN
      [] x.k # "nan" /\ y.k = "nan" -> NaN
      [] x.k # "nan" /\ y.k = "inf" ->
           IF Abs(x) = Num(1) THEN NaN
           ELSE IF Lt(Num(1), Abs(x)) = (y.m > 0) THEN PosInf ELSE Zero
      [] x.k # "nan" /\ y.k = "fin" /\ y.m = 0 -> Num(1)
      [] x.k = "fin" /\ x.m = 0 /\ y.k = "fin" /\ y.m # 0 ->
           IF y.m > 0 THEN Zero ELSE PosInf
      [] x.k = "inf" /\ y.k = "fin" /\ y.m # 0 ->
           IF y.m < 0 THEN Zero
           ELSE IF x.m < 0 /\ IsOdd(y) THEN NegInf ELSE PosInf
      [] OTHER ->
           IF x.m < 0 /\ ~IsInteger(y) THEN NaN
           ELSE IF x.m < 0 /\ IsOdd(y) THEN Neg(PowMag(x, y))
           ELSE PowMag(x, y)

(***************************************************************************)
(* The correlation library (frictionFactorCorrelations)                    *)
(***************************************************************************)
swameeJain(eOverD, re) ==
    IF Lt(re, Num(4000)) THEN Div(Num(64), re)
    ELSE LET term == Log10(Add(Div(eOverD, Lit(37, -1)),
                               Div(Lit(574, -2), Pow(re, Lit(9, -1)))))
         IN Div(Lit(25, -2), Pow(term, Num(2)))

maxIterations == 100
tolerance == Lit(1, -10)

\* One pass of the body of colebrook's loop: fNew from f.
colebrookUpdate(eOverD, re, f) ==
    LET sqrtF == Sqrt(f)
        term == Add(Div(eOverD, Lit(37, -1)), Div(Lit(251, -2), Mul(re, sqrtF)))
    IN Div(Lit(25, -2), Pow(Log10(term), Num(2)))

colebrookConverged(fNew, f) == Lt(Abs(Sub(fNew, f)), tolerance)

\* The rest of the while body once fNew is known: either the early return
\* of fNew, or f = fNew; iterations++.
colebrookAdvance(st, fNew) ==
    IF colebrookConverged(fNew, st.f)
    THEN [st EXCEPT !.returned = TRUE, !.ret = fNew, !.updates = @ + 1]
    ELSE [st EXCEPT !.f = fNew, !.iterations = @ + 1, !.updates = @ + 1]

\* One pass of the while body from the loop state st.
colebrookStep(eOverD, re, st) ==
    colebrookAdvance(st, colebrookUpdate(eOverD, re, st.f))

\* colebrookContinue, had the loop run while iterations <= maxIterations.
colebrookContinueInclusive(iterations) == iterations <= maxIterations

\* The loop condition.
colebrookContinue(iterations) == iterations < maxIterations

\* The state on entry to the loop; updates counts the evaluations of fNew.
colebrookEntry ==
    [f |-> Lit(2, -2), iterations |-> 0, returned |-> FALSE, ret |-> NaN,
     updates |-> 0]

\* The while loop up to `stop` iterations (a stretch of the loop).
RECURSIVE colebrookStretch(_, _, _, _)
colebrookStretch(eOverD, re, st, stop) ==
    IF ~st.returned /\ colebrookContinue(st.iterations) /\ st.iterations < stop
    THEN colebrookStretch(eOverD, re, colebrookStep(eOverD, re, st), stop)
    ELSE st

\* The whole while loop, evaluated stretch by stretch to keep the
\* evaluator's recursion shallow.
RECURSIVE colebrookLoop(_, _, _)
colebrookLoop(eOverD, re, st) ==
    IF ~st.returned /\ colebrookContinue(st.iterations)
    THEN colebrookLoop(eOverD, re,
                       colebrookStretch(eOverD, re, st, st.iterations + 10))
    ELSE st

colebrookLaminar(re) == Lt(re, Num(4000))

colebrook(eOverD, re) ==
    IF colebrookLaminar(re) THEN Div(Num(64), re)
    ELSE LET st == colebrookLoop(eOverD, re, colebrookEntry)
         IN IF st.returned THEN st.ret ELSE st.f

haaland(eOverD, re) ==
    IF Lt(re, Num(4000)) THEN Div(Num(64), re)
    ELSE LET term1 == Pow(Div(eOverD, Lit(37, -1)), Lit(111, -2))
             term2 == Div(Lit(69, -1), re)
             denominator == Log10(Add(term1, term2))
         IN Pow(Mul(Lit(-18, -1), denominator), Num(-2))

chen(eOverD, re) ==
    IF Lt(re, Num(4000)) THEN Div(Num(64), re)
    ELSE LET A == Log10(Sub(Div(eOverD, Lit(37065, -4)),
                            Mul(Div(Lit(50452, -4), re),
                                Log10(Add(Pow(Div(eOverD, Lit(28257, -4)),
                                              Lit(11098, -4)),
                                          Pow(Div(Lit(58506, -4), re),
                                              Lit(8981, -4)))))))
         IN Pow(Mul(Num(-2), A), Num(-2))

zigrangSylvester(eOverD, re) ==
    IF Lt(re, Num(4000)) THEN Div(Num(64), re)
    ELSE LET A == Mul(Lit(-8686, -4),
                      Log10(Add(Div(eOverD, Lit(37, -1)),
                                Div(Lit(574, -2), Pow(re, Lit(9, -1))))))
             B == Sub(A, Mul(Lit(8686, -4),
                             Log10(Add(Div(eOverD, Lit(37, -1)),
                                       Div(Mul(Lit(251, -2), A), re)))))
         IN Pow(Sub(A, Div(Sub(Pow(A, Num(2)), B),
                           Sub(Mul(Num(2), A), B))), Num(-2))

\* goudarSonnad from g on: z, dLA, dCF and the returned value.
goudarSonnadFromG(a, d, q, g) ==
    LET z == Log(Div(q, g))
        dLA == Mul(Div(g, Add(g, Num(1))), z)
        dCF == Mul(dLA, Add(Num(1),
                            Div(Div(z, Num(2)), Pow(Add(g, Num(1)), Num(2)))))
    IN Mul(a, Pow(Add(Log(Div(d, q)), dCF), Num(-2)))

\* goudarSonnad from q on.
goudarSonnadFromQ(a, b, d, q) ==
    goudarSonnadFromG(a, d, q, Add(Mul(b, d), Log(Div(d, q))))

goudarSonnad(eOverD, re) ==
    IF Lt(re, Num(4000)) THEN Div(Num(64), re)
    ELSE LET a == Div(Num(2), Log(Num(10)))
             b == Div(eOverD, Lit(37, -1))
             d == Mul(Div(Log(Num(10)), Lit(502, -2)), re)
             s == Add(Mul(b, d), Log(d))
         IN goudarSonnadFromQ(a, b, d,
                Pow(s, Div(Pow(s, Num(1)), Add(Pow(s, Num(1)), Num(1)))))

serghides(eOverD, re) ==
    IF Lt(re, Num(4000)) THEN Div(Num(64), re)
    ELSE LET A == Mul(Num(-2), Log10(Add(Div(eOverD, Lit(37, -1)),
                                         Div(Num(12), re))))
             B == Mul(Num(-2), Log10(Add(Div(eOverD, Lit(37, -1)),
                                         Div(Mul(Lit(251, -2), A), re))))
             C == Mul(Num(-2), Log10(Add(Div(eOverD, Lit(37, -1)),
                                         Div(Mul(Lit(251, -2), B), re))))
         IN Pow(Sub(A, Div(Pow(Sub(B, A), Num(2)),
                           Add(Sub(C, Mul(Num(2), B)), A))), Num(-2))

\* wood, had its laminar branch stopped at the nominal boundary 2300.
woodLaminarBelow2300(eOverD, re) ==
    IF Lt(re, Num(2300)) THEN Div(Num(64), re)
    ELSE Add(Add(Mul(Lit(94, -3), Pow(eOverD, Lit(225, -3))),
                 Mul(Lit(53, -2), eOverD)),
             Mul(Mul(Num(88), Pow(eOverD, Lit(44, -2))),
                 Pow(re, Mul(Lit(-162, -2), Pow(eOverD, Lit(134, -3))))))

wood(eOverD, re) ==
    IF Lt(re, Num(4000)) THEN Div(Num(64), re)
    ELSE Add(Add(Mul(Lit(94, -3), Pow(eOverD, Lit(225, -3))),
                 Mul(Lit(53, -2), eOverD)),
             Mul(Mul(Num(88), Pow(eOverD, Lit(44, -2))),
                 Pow(re, Mul(Lit(-162, -2), Pow(eOverD, Lit(134, -3))))))

(***************************************************************************)
(* JavaScript values other than Numbers that reach the dispatcher: n is    *)
(* the value's conversion to Number, s its text.                           *)
(***************************************************************************)
NullV == [t |-> "null", n |-> Zero, s |-> "null"]
NumV(n) == [t |-> "number", n |-> n, s |-> ""]
StrV(s) == [t |-> "string", n |-> NaN, s |-> s]
BoolV(b) == [t |-> "boolean", n |-> IF b THEN Num(1) ELSE Zero, s |-> ""]
BigIntV == [t |-> "bigint", n |-> Num(1), s |-> "1n"]
\* Object(v) for a Number v: a wrapper object that converts back to v.
NumObjV(n) == [t |-> "object", n |-> n, s |-> "Number"]

\* ToNumber throws a TypeError on a BigInt.
ToNumberThrows(v) == v.t = "bigint"
ToNumber(v) == v.n
\* The global isNaN(v): IsNaN(ToNumber(v)).
isNaN(v) == IsNaN(ToNumber(v))

(***************************************************************************)
(* The registry object and property lookup on it                           *)
(***************************************************************************)
\* Object.keys(frictionFactorCorrelations), in definition order.
getAvailableCorrelations ==
    <<"swameeJain", "colebrook", "haaland", "chen", "zigrangSylvester",
      "goudarSonnad", "serghides", "wood">>

OwnKeys == {getAvailableCorrelations[i] : i \in DOMAIN getAvailableCorrelations}

\* Functions the object literal inherits from Object.prototype.
InheritedFunctions == {"toString", "constructor", "hasOwnProperty"}

\* frictionFactorCorrelations[correlationName]: an own function, a function
\* or object found on the prototype chain, or undefined.
Lookup(correlationName) ==
    IF correlationName \in OwnKeys THEN "correlation"
    ELSE IF correlationName \in InheritedFunctions THEN "inherited"
    ELSE IF correlationName = "__proto__" THEN "object"
    ELSE "undefined"

Truthy(found) == found # "undefined"

\* The correlation function registered under an own key.
Correlation(correlationName, eOverD, re) ==
    CASE correlationName = "swameeJain" -> swameeJain(eOverD, re)
      [] correlationName = "colebrook" -> colebrook(eOverD, re)
      [] correlationName = "haaland" -> haaland(eOverD, re)
      [] correlationName = "chen" -> chen(eOverD, re)
      [] correlationName = "zigrangSylvester" -> zigrangSylvester(eOverD, re)
      [] correlationName = "goudarSonnad" -> goudarSonnad(eOverD, re)
      [] correlationName = "serghides" -> serghides(eOverD, re)
      [] correlationName = "wood" -> wood(eOverD, re)

\* frictionFactorCorrelations[correlationName](eOverD, re): what the call
\* returns, or the TypeError it raises when the property is not callable.
Invoke(correlationName, eOverD, re) ==
    CASE Lookup(correlationName) = "correlation" ->
           [thrown |-> FALSE, message |-> "",
            f |-> NumV(Correlation(correlationName, ToNumber(eOverD),
                                   ToNumber(re)))]
      [] correlationName = "toString" ->
           [thrown |-> FALSE, message |-> "", f |-> StrV("[object Object]")]
      [] correlationName = "constructor" ->
           [thrown |-> FALSE, message |-> "", f |-> NumObjV(ToNumber(eOverD))]
      [] correlationName = "hasOwnProperty" ->
           [thrown |-> FALSE, message |-> "", f |-> BoolV(FALSE)]
      [] OTHER ->
           [thrown |-> TRUE,
            message |-> "frictionFactorCorrelations[correlationName] is not a function",
            f |-> NullV]

(***************************************************************************)
(* calculateFrictionFactor                                                 *)
(***************************************************************************)
\* Failure, had the error result kept a text in info.
FailureKeepingInfo(message) ==
    [kind |-> "return", value |-> NullV, error |-> StrV(message),
     info |-> StrV(message), invoked |-> FALSE]

\* What a call does: kind is "return" or "throw" (a fault that reaches the
\* caller); invoked records whether line 199 called the looked-up property.
Failure(message) ==
    [kind |-> "return", value |-> NullV, error |-> StrV(message),
     info |-> NullV, invoked |-> FALSE]

Success(f, flowInfo) ==
    [kind |-> "return", value |-> f, error |-> NullV, info |-> StrV(flowInfo),
     invoked |-> TRUE]

Fault(message) ==
    [kind |-> "throw", value |-> NullV, error |-> StrV(message),
     info |-> NullV, invoked |-> FALSE]

\* The input validation: the first check that does not pass, or "ok".
\* isNaN(eOverD) || isNaN(re) converts eOverD first and re only if needed.
validate(correlationName, eOverD, re) ==
    IF ~Truthy(Lookup(correlationName)) THEN "notFound"
    ELSE IF ToNumberThrows(eOverD) THEN "fault"
    ELSE IF isNaN(eOverD) THEN "invalid"
    ELSE IF ToNumberThrows(re) THEN "fault"
    ELSE IF isNaN(re) THEN "invalid"
    ELSE IF Lt(ToNumber(eOverD), Zero) THEN "negativeRoughness"
    ELSE IF Le(ToNumber(re), Zero) THEN "nonPositiveReynolds"
    ELSE "ok"

\* calculationFailed, had the last test been f < 0.
calculationFailedStrict(f) == f.t = "null" \/ isNaN(f) \/ Lt(ToNumber(f), Zero)

\* f === null || isNaN(f) || f <= 0
calculationFailed(f) == f.t = "null" \/ isNaN(f) \/ Le(ToNumber(f), Zero)

\* The flow regime text from re.
flowInfo(re) ==
    IF Lt(re, Num(2300)) THEN "Laminar flow (Re < 2300)"
    ELSE IF Lt(re, Num(4000)) THEN "Transitional flow (2300 < Re < 4000)"
    ELSE "Turbulent flow (Re > 4000)"

\* The try block after the call: the check of f and the result.
checkResult(call, re) ==
    IF call.thrown
    THEN [Failure("Calculation error: " \o call.message) EXCEPT !.invoked = TRUE]
    ELSE IF calculationFailed(call.f)
    THEN [Failure("Calculation failed - check input ranges")
            EXCEPT !.invoked = TRUE]
    ELSE Success(call.f, flowInfo(ToNumber(re)))

\* The try block.
evaluate(correlationName, eOverD, re) ==
    checkResult(Invoke(correlationName, eOverD, re), re)

calculateFrictionFactor(correlationName, eOverD, re) ==
    LET v == validate(correlationName, eOverD, re)
    IN CASE v = "notFound" ->
              Failure("Correlation '" \o correlationName \o "' not found")
         [] v = "fault" ->
              Fault("Cannot convert a BigInt value to a number")
         [] v = "invalid" ->
              Failure("Invalid input: e/D and Re must be numbers")
         [] v = "negativeRoughness" -> Failure("e/D must be non-negative")
         [] v = "nonPositiveReynolds" ->
              Failure("Reynolds number must be positive")
         [] OTHER -> evaluate(correlationName, eOverD, re)

(***************************************************************************)
(* The calls: Init draws one triple of arguments, the actions apply the    *)
(* interface's operations to it.                                           *)
(***************************************************************************)
MaxRoughnessExp == 4
MaxReynoldsExp == 5

\* Names tried: the registered ones, an unregistered one, and names that
\* are found on the prototype chain of the registry object.
NameInputs == OwnKeys \cup InheritedFunctions \cup {"nonexistent", "__proto__"}

NumberInputsE ==
    {Lit(-1, -3), Zero, NaN, PosInf}
        \cup {Lit(2, -j) : j \in 3..MaxRoughnessExp}

NumberInputsRe ==
    {Num(-5), Zero, Num(2000), Num(2299), Num(2300), Num(3000), Num(3999),
     Num(4000), NaN, PosInf, NegInf}
        \cup {Lit(5, j) : j \in 4..MaxReynoldsExp}

NonNumbers == {StrV("abc"), BigIntV}

VARIABLES
    pc,               \* "ready", then which operation has returned
    correlationName,  \* the arguments of the call
    eOverD,
    re,
    result,           \* what calculateFrictionFactor did
    ret,              \* what a correlation called directly returned
    st,               \* colebrook's locals while it runs step by step
    names             \* what getAvailableCorrelations returned

vars == <<pc, correlationName, eOverD, re, result, ret, st, names>>

NoResult ==
    [kind |-> "none", value |-> NullV, error |-> NullV, info |-> NullV,
     invoked |-> FALSE]

Init ==
    /\ pc = "ready"
    /\ correlationName \in NameInputs
    /\ eOverD \in {NumV(n) : n \in NumberInputsE} \cup NonNumbers
    /\ re \in {NumV(n) : n \in NumberInputsRe} \cup NonNumbers
    /\ result = NoResult
    /\ ret = NullV
    /\ st = colebrookEntry
    /\ names = <<>>

NumberArguments == eOverD.t = "number" /\ re.t = "number"

\* calculateFrictionFactor(correlationName, eOverD, re)
CalculateFrictionFactor ==
    /\ pc = "ready"
    /\ result' = calculateFrictionFactor(correlationName, eOverD, re)
    /\ pc' = "calculated"
    /\ UNCHANGED <<correlationName, eOverD, re, ret, st, names>>

\* frictionFactorCorrelations.<name>(eOverD, re), called directly with Numbers
CallCorrelation ==
    /\ pc = "ready"
    /\ correlationName \in OwnKeys
    /\ NumberArguments
    /\ ret' = NumV(Correlation(correlationName, eOverD.n, re.n))
    /\ pc' = "returned"
    /\ UNCHANGED <<correlationName, eOverD, re, result, st, names>>

\* getAvailableCorrelations()
GetAvailableCorrelations ==
    /\ pc = "ready"
    /\ names' = getAvailableCorrelations
    /\ pc' = "listed"
    /\ UNCHANGED <<correlationName, eOverD, re, result, ret, st>>

\* colebrook(eOverD, re) statement by statement: the laminar return,
ColebrookLaminar ==
    /\ pc = "ready"
    /\ correlationName = "colebrook"
    /\ NumberArguments
    /\ colebrookLaminar(re.n)
    /\ ret' = NumV(Div(Num(64), re.n))
    /\ pc' = "colebrookReturned"
    /\ UNCHANGED <<correlationName, eOverD, re, result, st, names>>

\* the initial guess,
ColebrookEnter ==
    /\ pc = "ready"
    /\ correlationName = "colebrook"
    /\ NumberArguments
    /\ ~colebrookLaminar(re.n)
    /\ st' = colebrookEntry
    /\ pc' = "colebrookLoop"
    /\ UNCHANGED <<correlationName, eOverD, re, result, ret, names>>

\* one pass of the loop body,
ColebrookIterate ==
    /\ pc = "colebrookLoop"
    /\ colebrookContinue(st.iterations)
    /\ \E next \in {colebrookStep(eOverD.n, re.n, st)} :
          /\ st' = next
          /\ IF next.returned
             THEN ret' = NumV(next.ret) /\ pc' = "colebrookReturned"
             ELSE UNCHANGED <<ret, pc>>
    /\ UNCHANGED <<correlationName, eOverD, re, result, names>>

\* and the return after the loop.
ColebrookExhausted ==
    /\ pc = "colebrookLoop"
    /\ ~colebrookContinue(st.iterations)
    /\ ret' = NumV(st.f)
    /\ pc' = "colebrookReturned"
    /\ UNCHANGED <<correlationName, eOverD, re, result, st, names>>

Next ==
    \/ CalculateFrictionFactor
    \/ CallCorrelation
    \/ GetAvailableCorrelations
    \/ ColebrookLaminar
    \/ ColebrookEnter
    \/ ColebrookIterate
    \/ ColebrookExhausted

Spec == Init /\ [][Next]_vars


(***************************************************************************)
(* Properties                                                              *)
(***************************************************************************)
Calculated == pc = "calculated"
Returned == Calculated /\ result.kind = "return"
Succeeded == Returned /\ result.value # NullV
Registered == correlationName \in OwnKeys

NotFoundError == StrV("Correlation '" \o correlationName \o "' not found")
InvalidInputError == StrV("Invalid input: e/D and Re must be numbers")
NegativeRoughnessError == StrV("e/D must be non-negative")
NonPositiveReynoldsError == StrV("Reynolds number must be positive")
CalculationFailedError == StrV("Calculation failed - check input ranges")

\* C1: the object calculateFrictionFactor returns has exactly one of value
\* and error non-null, and info is non-null only next to a non-null value:
\* an error result has value = null and info = null, a success result has
\* error = null.
C1_ExactlyOneOfValueError ==
    Returned =>
        /\ (result.value = NullV) # (result.error = NullV)
        /\ (result.info # NullV => result.value # NullV)
        /\ (result.error # NullV => result.value = NullV /\ result.info = NullV)

C1_Witness ==
    /\ Returned
    /\ result.value # NullV
    /\ result.info # NullV
    /\ result.error = NullV

C1_WitnessError ==
    /\ Returned
    /\ result.error = InvalidInputError
    /\ result.value = NullV

\* C2: calculateFrictionFactor returns the not-found error exactly for the
\* names that getAvailableCorrelations() does not list, whatever the other
\* arguments are ("toString" and "constructor" included).
C2_NotFoundIffUnregistered ==
    Calculated =>
        (~Registered <=>
            /\ result.kind = "return"
            /\ result.error = NotFoundError
            /\ result.value = NullV
            /\ result.info = NullV)

\* The four precondition checks of C3, each on its own.
NameCheckFails == ~Registered
NumberCheckFails == eOverD.t # "number" \/ re.t # "number"
                       \/ IsNaN(eOverD.n) \/ IsNaN(re.n)
RoughnessCheckFails == Lt(eOverD.n, Zero)
ReynoldsCheckFails == Le(re.n, Zero)

\* C3: the error calculateFrictionFactor returns is that of the first of
\* the checks (1) unknown name, (2) NaN / non-numeric input, (3) eOverD < 0,
\* (4) re <= 0 that fails, and the looked-up function is invoked only when
\* all four pass.
C3_FirstFailingCheckWins ==
    /\ Returned =>
        IF NameCheckFails THEN result.error = NotFoundError
        ELSE IF NumberCheckFails THEN result.error = InvalidInputError
        ELSE IF RoughnessCheckFails THEN result.error = NegativeRoughnessError
        ELSE IF ReynoldsCheckFails THEN result.error = NonPositiveReynoldsError
        ELSE /\ result.invoked
             /\ result.error \notin {NotFoundError, InvalidInputError,
                                     NegativeRoughnessError,
                                     NonPositiveReynoldsError}
    /\ Calculated /\ result.invoked =>
        /\ ~NameCheckFails
        /\ ~NumberCheckFails
        /\ ~RoughnessCheckFails
        /\ ~ReynoldsCheckFails

\* C4: for a registered name, an eOverD or re that is not a finite number
\* (NaN, +Infinity, -Infinity) gets the invalid-input error.
C4_NonFiniteIsInvalidInput ==
    Calculated /\ Registered /\ NumberArguments
               /\ (~IsFin(eOverD.n) \/ ~IsFin(re.n)) =>
        /\ result.kind = "return"
        /\ result.error = InvalidInputError
        /\ result.value = NullV

C6_FlowInfoFromReAlone ==
    Succeeded =>
        /\ Lt(re.n, Num(2300)) =>
             result.info = StrV("Laminar flow (Re < 2300)")
        /\ Ge(re.n, Num(2300)) /\ Lt(re.n, Num(4000)) =>
             result.info = StrV("Transitional flow (2300 < Re < 4000)")
        /\ Ge(re.n, Num(4000)) =>
             result.info = StrV("Turbulent flow (Re > 4000)")
        /\ Ge(re.n, Num(2300)) /\ Lt(re.n, Num(4000)) =>
             result.value = NumV(Div(Num(64), re.n))

\* C7, on the states of a running colebrook call: at most maxIterations
\* updates; a returned value is a Number; after the loop was entered the
\* value returned is either the fNew that met the tolerance or, with
\* maxIterations updates done and none converged, the last estimate.
C7_ColebrookState ==
    /\ pc \in {"colebrookLoop", "colebrookReturned"} =>
        /\ st.updates <= maxIterations
        /\ st.iterations <= st.updates
    /\ pc = "colebrookLoop" => ~st.returned /\ st.updates = st.iterations
    /\ pc = "colebrookReturned" =>
        /\ ret.t = "number"
        /\ st.updates > 0 =>
            \/ /\ st.returned
               /\ ret = NumV(st.ret)
               /\ st.ret = colebrookUpdate(eOverD.n, re.n, st.f)
               /\ Lt(Abs(Sub(st.ret, st.f)), Lit(1, -10))
            \/ /\ ~st.returned
               /\ st.iterations = maxIterations
               /\ st.updates = maxIterations
               /\ ret = NumV(st.f)

\* C7, on the steps: inside the loop an update that meets the tolerance
\* returns at once, any other counts one iteration; with maxIterations
\* counted the next step returns f.
C7_ColebrookStep ==
    pc = "colebrookLoop" =>
        IF st.iterations < maxIterations
        THEN LET fNew == colebrookUpdate(eOverD.n, re.n, st.f)
             IN IF Lt(Abs(Sub(fNew, st.f)), Lit(1, -10))
                THEN pc' = "colebrookReturned" /\ ret' = NumV(fNew)
                ELSE /\ pc' = "colebrookLoop"
                     /\ st'.f = fNew
                     /\ st'.iterations = st.iterations + 1
        ELSE pc' = "colebrookReturned" /\ ret' = NumV(st.f)

C7_WitnessConverged ==
    /\ pc = "colebrookReturned"
    /\ st.returned
    /\ st.updates > 1
    /\ st.updates < maxIterations

\* C8: for a registered correlation and valid arguments (eOverD >= 0,
\* re >= 4000) the output is a finite positive number and the call
\* succeeds, eOverD = 0 included.
C8_TurbulentOutputPositive ==
    Calculated /\ Registered /\ NumberArguments
               /\ IsFin(eOverD.n) /\ IsFin(re.n)
               /\ Ge(eOverD.n, Zero) /\ Ge(re.n, Num(4000)) =>
        /\ result.kind = "return"
        /\ result.error = NullV
        /\ result.value.t = "number"
        /\ IsFin(result.value.n)
        /\ Gt(result.value.n, Zero)

\* C9: when the invoked function returns null, NaN or a value <= 0 the
\* result is the calculation-failed error with value null; a success result
\* carries the value the invoked function returned, which is not NaN and is
\* strictly positive.
C9_FailedOrPositive ==
    Calculated /\ result.invoked /\ ~Invoke(correlationName, eOverD, re).thrown =>
        LET f == Invoke(correlationName, eOverD, re).f
        IN /\ f.t = "null" \/ IsNaN(f.n) \/ Le(f.n, Zero) =>
                /\ result.error = CalculationFailedError
                /\ result.value = NullV
           /\ result.value # NullV =>
                /\ result.value = f
                /\ ~IsNaN(result.value.n)
                /\ Gt(result.value.n, Zero)
                /\ result.error = NullV

C9_Witness ==
    /\ Calculated
    /\ correlationName = "wood"
    /\ eOverD = NumV(Zero)
    /\ re = NumV(Lit(5, 4))
    /\ result.invoked
    /\ result.error = CalculationFailedError
    /\ result.value = NullV

\* C10: no call of calculateFrictionFactor ends in a fault that reaches the
\* caller; a failure of the invoked property is returned as
\* 'Calculation error: ' and its message, with value and info null.
C10_NeverThrows ==
    Calculated =>
        /\ result.kind = "return"
        /\ Invoke(correlationName, eOverD, re).thrown /\ result.invoked =>
             /\ result.error = StrV("Calculation error: "
                    \o Invoke(correlationName, eOverD, re).message)
             /\ result.value = NullV
             /\ result.info = NullV
====
